---- MODULE Spec2Model ----
(***************************************************************************)
(* Stain area calculator (punto_4/stain-area-calculator).                  *)
(*                                                                         *)
(*   UploadImageComponent  - loads an image into a canvas, binarises it    *)
(*                           and generates the random sample points.      *)
(*   CalculationService    - overlays the points on the image, counts the  *)
(*                           red-over-black pixels, computes the area and  *)
(*                           appends the result to a BehaviorSubject.      *)
(*                                                                         *)
(* A pixel is a tuple <<r, g, b, a>> of channel values in 0..255; a bitmap *)
(* is a record [width, height, data] whose data is the row-major sequence  *)
(* of its pixels (the code's flat array with stride 4).                    *)
(***************************************************************************)
EXTENDS Integers, Sequences, FiniteSets, TLC

VARIABLES
    \* ---- UploadImageComponent ----
    canvas,        \* bitmap of the #imageCanvas element
    source,        \* imageData read by convertToBinary before it rewrites the canvas
    imageLoaded, showButton, showSlider,
    numberPoints,  \* public numberPoints
    points,        \* public points
    sampled,       \* the most recent generateRandomPoints call: its argument and what it returned
    \* ---- CalculationService ----
    heap,          \* the arrays allocated by addResult, by identity; heap[a] is the contents of array a
    value,         \* results.value: identity of the array the BehaviorSubject currently holds
    received,      \* per reader: the array identities delivered to it so far, in delivery order
    subscribed,    \* per reader: whether it is subscribed to results
    rasterizer,    \* how the canvas of this browser rasterises the edge of a path
    last,          \* outcome of the most recent getResults call
    okCalls        \* number of getResults calls that returned normally

uploadVars  == <<canvas, source, imageLoaded, showButton, showSlider, numberPoints, points, sampled>>
serviceVars == <<heap, value, received, subscribed, rasterizer, last, okCalls>>
vars == <<uploadVars, serviceVars>>

(***************************************************************************)
(* Bounds of the model.                                                    *)
(***************************************************************************)
MaxDim == 2        \* uploaded images are at most MaxDim x MaxDim
MaxSample == 4     \* largest slider value besides the concrete 10
RandRes == 3       \* Math.random() takes the values k / RandRes, k in 0..RandRes-1
StreamLen == 3     \* draws of Math.random() before the modelled stream repeats
MaxCalls == 2      \* getResults calls that return normally

(***************************************************************************)
(* Program constants.                                                      *)
(***************************************************************************)
Threshold == 128
DefaultNumberPoints == 100
MinPoints == 3
MarkerRadius == 4
LineWidth == 2

Max(a, b) == IF a > b THEN a ELSE b
Abs(a) == IF a < 0 THEN 0 - a ELSE a

(***************************************************************************)
(* UploadImageComponent                                                    *)
(***************************************************************************)

\* Pixels an uploaded image is made of (as getImageData returns them):
\* black, white, the luminance boundary and its two neighbours, a saturated
\* colour, and two pixels that are not opaque.
Palette == << <<0, 0, 0, 255>>, <<255, 255, 255, 255>>, <<128, 128, 128, 255>>,
              <<129, 128, 128, 255>>, <<128, 128, 127, 255>>, <<255, 0, 0, 255>>,
              <<0, 255, 0, 10>>, <<200, 200, 200, 0>> >>

\* The images a user can select: every size up to MaxDim x MaxDim, filled with
\* the palette starting at any offset.
UploadImages ==
    { [width |-> w, height |-> h,
       data |-> [i \in 1..(w * h) |-> Palette[((i - 1 + k) % Len(Palette)) + 1]]] :
      w \in 1..MaxDim, h \in 1..MaxDim, k \in 0..(Len(Palette) - 1) }

\* 100 * (0.3 * R + 0.59 * G + 0.11 * B).  The double-precision sum of the
\* code lies on the same side of 128 as the exact value for every R, G, B in
\* 0..255 (checked exhaustively), so the comparison is done on integers.
grayscale100(px) == 30 * px[1] + 59 * px[2] + 11 * px[3]

binaryValueLe(px) == IF grayscale100(px) >= 100 * Threshold THEN 255 ELSE 0

binaryValue(px) == IF grayscale100(px) > 100 * Threshold THEN 255 ELSE 0

convertToBinaryKeepAlpha(bitmap) ==
    [bitmap EXCEPT !.data = [i \in DOMAIN bitmap.data |->
        <<binaryValue(bitmap.data[i]), binaryValue(bitmap.data[i]),
          binaryValue(bitmap.data[i]), bitmap.data[i][4]>>]]

\* convertToBinary: the bitmap put back on the canvas.
convertToBinary(bitmap) ==
    [bitmap EXCEPT !.data = [i \in DOMAIN bitmap.data |->
        <<binaryValue(bitmap.data[i]), binaryValue(bitmap.data[i]),
          binaryValue(bitmap.data[i]), 255>>]]

\* Streams of values Math.random() returns: rnd[k] / RandRes is the k-th value
\* drawn, each in [0, 1).  The streams modelled start at any value and either
\* repeat it or step through the values.
RandomStream(first, step) == [k \in 1..StreamLen |-> (first + (k - 1) * step) % RandRes]
RandomStreams == { RandomStream(first, step) : first \in 0..(RandRes - 1), step \in 0..1 }

\* Math.floor(Math.random() * size) for the draw u / RandRes.
FloorScaled(u, size) == (u * size) \div RandRes

\* Number of iterations of "for (let i = 0; i < n; i++)".
LoopCount(n) == Max(n, 0)

generateRandomPointsOneMore(n, width, height, rnd) ==
    [i \in 1..(LoopCount(n) + 1) |->
        [x |-> FloorScaled(rnd[((2 * i - 2) % Len(rnd)) + 1], width),
         y |-> FloorScaled(rnd[((2 * i - 1) % Len(rnd)) + 1], height)]]

\* generateRandomPoints(n) on a canvas of the given size, with the random
\* stream rnd (repeated when n needs more draws than it holds).
generateRandomPoints(n, width, height, rnd) ==
    [i \in 1..LoopCount(n) |->
        [x |-> FloorScaled(rnd[((2 * i - 2) % Len(rnd)) + 1], width),
         y |-> FloorScaled(rnd[((2 * i - 1) % Len(rnd)) + 1], height)]]

\* The canvas element before any image is drawn: HTML's default size.  Its
\* bitmap is not read by any handler before onFileSelected replaces it.
BlankCanvas == [width |-> 300, height |-> 150, data |-> <<>>]

UploadInit ==
    /\ canvas = BlankCanvas
    /\ source = BlankCanvas
    /\ imageLoaded = FALSE
    /\ showButton = FALSE
    /\ showSlider = FALSE
    /\ numberPoints = DefaultNumberPoints
    /\ points = <<>>
    /\ sampled = [called |-> FALSE, n |-> 0, returned |-> FALSE, plan |-> <<>>]

\* onFileSelected, from img.onload on: draw, binarise, show the controls,
\* generate the points.
OnFileSelected ==
    \E img \in UploadImages, rnd \in RandomStreams :
        /\ source' = img
        /\ canvas' = convertToBinary(img)
        /\ imageLoaded' = TRUE
        /\ showButton' = TRUE
        /\ showSlider' = TRUE
        /\ points' = generateRandomPoints(numberPoints, img.width, img.height, rnd)
        /\ sampled' = [called |-> TRUE, n |-> numberPoints, returned |-> TRUE, plan |-> points']
        /\ UNCHANGED <<numberPoints, serviceVars>>

\* Values parseInt returns for the slider's value.
SliderValues == ((0 - 2)..MaxSample) \cup {10}

OnSliderChange ==
    \E n \in SliderValues, rnd \in RandomStreams :
        /\ numberPoints' = n
        /\ points' = generateRandomPoints(n, canvas.width, canvas.height, rnd)
        /\ sampled' = [called |-> TRUE, n |-> n, returned |-> TRUE, plan |-> points']
        /\ UNCHANGED <<canvas, source, imageLoaded, showButton, showSlider, serviceVars>>

(***************************************************************************)
(* CalculationService                                                      *)
(***************************************************************************)

\* A nullable value is a sequence: empty for null, <<v>> for the value v.
Null == <<>>
Some(v) == <<v>>

NoError == "none"
ErrImage == "Image is required for calculation"
ErrPoints == "At least 3 points are required for calculation"
ErrContext == "Could not get canvas context"

BlackPx == <<0, 0, 0, 255>>
WhitePx == <<255, 255, 255, 255>>
GreyPx == <<100, 100, 100, 255>>
RedPx == <<255, 0, 0, 255>>

Solid(w, h, px) == [width |-> w, height |-> h, data |-> [i \in 1..(w * h) |-> px]]

\* Left half stain, right half background.
HalfSplit(w, h) ==
    [width |-> w, height |-> h,
     data |-> [i \in 1..(w * h) |-> IF (i - 1) % w < w \div 2 THEN BlackPx ELSE WhitePx]]

\* The images getResults is called with.
ServiceImages == {Solid(10, 10, BlackPx), Solid(7, 6, WhitePx), HalfSplit(12, 3), Solid(11, 3, GreyPx)}

\* The point lists getResults is called with for an image of the given size:
\* in-bounds points from the sampler; every length up to the minimum, all at
\* one place, and ten points at varying places.
CallPlans(w, h) ==
    { generateRandomPoints(n, w, h, RandomStream(0, 0)) : n \in 0..MinPoints }
    \cup { generateRandomPoints(10, w, h, RandomStream(0, 1)) }

\* The arguments of getResults.
CallInputs ==
    { [image |-> Null, points |-> pts] : pts \in {Null, Some(generateRandomPoints(MinPoints, 10, 10, RandomStream(0, 1)))} }
    \cup UNION { { [image |-> Some(img), points |-> pts] :
                     pts \in {Null} \cup { Some(p) : p \in CallPlans(img.width, img.height) } } :
                 img \in ServiceImages }

\* ctx.drawImage(image, 0, 0) on a fresh (transparent) canvas followed by
\* getImageData: a fully transparent pixel reads back as transparent black.
drawImage(image) ==
    [image EXCEPT !.data = [i \in DOMAIN image.data |->
        IF image.data[i][4] = 0 THEN <<0, 0, 0, 0>> ELSE image.data[i]]]

\* Pixel (px, py) is the unit square [px, px+1] x [py, py+1]; a point (x, y)
\* is the corner shared by pixels (x-1, y-1) .. (x, y).
NearDist(p, c) == Max(0, Max(p - c, c - (p + 1)))
FarDist(p, c) == Max(Abs(p - c), Abs(p + 1 - c))
Near2(px, py, pt) == NearDist(px, pt.x) * NearDist(px, pt.x) + NearDist(py, pt.y) * NearDist(py, pt.y)
Far2(px, py, pt) == FarDist(px, pt.x) * FarDist(px, pt.x) + FarDist(py, pt.y) * FarDist(py, pt.y)

\* The marker of a point is arc(x, y, 4) filled, then stroked with lineWidth
\* 2: the disc of radius 4 and the band between radii 3 and 5, both red
\* ('rgba(255, 0, 0)' is red in every browser that takes rgba() with three
\* arguments, which the ones Angular 19 supports do).
\* Which pixels end up exactly (255, 0, 0) depends on how the canvas
\* rasterises the edges:
\*   "aliased"  - no anti-aliasing: the pixels whose centre is in the marker;
\*   "covered"  - anti-aliased: the pixels lying wholly inside the marker;
\*   "blended"  - anti-aliased, and a pixel shared by the fill's edge and the
\*                stroke's inner edge stays a blend: only the pixels wholly
\*                inside the disc or wholly inside the band.
Rasterizers == {"aliased", "covered", "blended"}
OuterRadius2 == 2 * MarkerRadius + LineWidth   \* twice the outer radius
InnerRadius2 == 2 * MarkerRadius - LineWidth   \* twice the inner radius of the band

MarkerPaints(raster, px, py, pt) ==
    CASE raster = "aliased" ->
            (2 * (px - pt.x) + 1) * (2 * (px - pt.x) + 1) + (2 * (py - pt.y) + 1) * (2 * (py - pt.y) + 1)
                <= OuterRadius2 * OuterRadius2
      [] raster = "covered" -> 4 * Far2(px, py, pt) <= OuterRadius2 * OuterRadius2
      [] raster = "blended" ->
            \/ Far2(px, py, pt) <= MarkerRadius * MarkerRadius
            \/ /\ 4 * Far2(px, py, pt) <= OuterRadius2 * OuterRadius2
               /\ 4 * Near2(px, py, pt) >= InnerRadius2 * InnerRadius2

\* overlayImage: originalImageData and overlayImageData.
overlayImage(image, pts, raster) ==
    LET original == drawImage(image) IN
    [originalImageData |-> original,
     overlayImageData |->
        [original EXCEPT !.data = [i \in DOMAIN original.data |->
            IF \E k \in DOMAIN pts :
                  MarkerPaints(raster, (i - 1) % image.width, (i - 1) \div image.width, pts[k])
            THEN RedPx ELSE original.data[i]]]]

isInsideOverlayOnly(orig, over) == over[1] = 255 /\ over[2] = 0 /\ over[3] = 0

\* The test of getPointsInside's loop: black in original and red in overlay.
isInside(orig, over) ==
    /\ orig[1] = 0 /\ orig[2] = 0 /\ orig[3] = 0
    /\ over[1] = 255 /\ over[2] = 0 /\ over[3] = 0

\* getPointsInside: the number of pixel indices passing the test.
getPointsInside(pts, image, raster) ==
    LET o == overlayImage(image, pts, raster) IN
    [overlayImageData |-> o.overlayImageData,
     pointsInside |-> Cardinality({i \in DOMAIN o.overlayImageData.data :
                          isInside(o.originalImageData.data[i], o.overlayImageData.data[i])})]

\* Number((totalArea * (pointsInside / totalPoints)).toFixed(4)), in units of
\* 1/10000.  With fewer than 32 points the exact quotient is never half-way
\* between two 4-decimal values, so the double rounds as the exact value does.
estimatedArea10000(totalArea, pointsInside, totalPoints) ==
    (2 * 10000 * totalArea * pointsInside + totalPoints) \div (2 * totalPoints)

validateMinTwo(data) ==
    IF data.image = Null THEN ErrImage
    ELSE IF data.points = Null \/ Len(data.points[1]) < MinPoints - 1 THEN ErrPoints
    ELSE NoError

\* The two guards at the top of getResults.
validate(data) ==
    IF data.image = Null THEN ErrImage
    ELSE IF data.points = Null \/ Len(data.points[1]) < MinPoints THEN ErrPoints
    ELSE NoError

\* What a getResults call leaves behind: the error thrown (NoError when it
\* returns), the number of canvases created before that, the values computed
\* (0 when not reached) and the results handed to addResult.
Threw(error, surfaces) ==
    [error |-> error, surfaces |-> surfaces, pointsInside |-> 0, totalPoints |-> 0,
     totalArea |-> 0, estimatedArea |-> 0, added |-> <<>>]

getResultsAddFirst(data, failAt, raster) ==
    IF validate(data) # NoError THEN Threw(validate(data), 0)
    ELSE IF failAt = 1 THEN Threw(ErrContext, 1)
    ELSE LET image == data.image[1]
             pts == data.points[1]
             totalArea == image.width * image.height
             inside == getPointsInside(pts, image, raster)
             estimatedArea == estimatedArea10000(totalArea, inside.pointsInside, Len(pts))
             result == [area |-> estimatedArea, points |-> pts, originalImage |-> image,
                        modifiedImage |-> inside.overlayImageData]
         IN  IF failAt = 2 THEN [Threw(ErrContext, 2) EXCEPT !.added = <<result>>]
             ELSE [error |-> NoError, surfaces |-> 2, pointsInside |-> inside.pointsInside,
                   totalPoints |-> Len(pts), totalArea |-> totalArea,
                   estimatedArea |-> estimatedArea, added |-> <<result>>]

\* getResults(data) in an environment where getContext('2d') returns null at
\* its failAt-th call (1: in overlayImage, 2: in getResults), or never (0).
getResults(data, failAt, raster) ==
    IF validate(data) # NoError THEN Threw(validate(data), 0)
    ELSE IF failAt = 1 THEN Threw(ErrContext, 1)
    ELSE LET image == data.image[1]
             pts == data.points[1]
             totalArea == image.width * image.height
             inside == getPointsInside(pts, image, raster)
             estimatedArea == estimatedArea10000(totalArea, inside.pointsInside, Len(pts))
             result == [area |-> estimatedArea, points |-> pts, originalImage |-> image,
                        modifiedImage |-> inside.overlayImageData]
         IN  IF failAt = 2 THEN Threw(ErrContext, 2)
             ELSE [error |-> NoError, surfaces |-> 2, pointsInside |-> inside.pointsInside,
                   totalPoints |-> Len(pts), totalArea |-> totalArea,
                   estimatedArea |-> estimatedArea, added |-> <<result>>]

addResultInPlace(h, v, result) ==
    [heap |-> [h EXCEPT ![v] = Append(@, result)], value |-> v]

addResultFront(h, v, result) ==
    [heap |-> Append(h, <<result>> \o h[v]), value |-> Len(h) + 1]

\* addResult: results.next([...results.value, result]) allocates a new array
\* and makes it the subject's value.  h is the heap of arrays, v the identity
\* of results.value.
addResult(h, v, result) ==
    [heap |-> Append(h, h[v] \o <<result>>), value |-> Len(h) + 1]

\* The getContext('2d') call of a getResults(data) call that can return null:
\* none is made when the arguments are rejected.
FailPoints(data) == IF validate(data) # NoError THEN {0} ELSE 0..2

\* getResults for every argument, environment and rasteriser modelled.
getResultsOf ==
    [data \in CallInputs, failAt \in 0..2, raster \in Rasterizers |->
        getResults(data, failAt, raster)]

Readers == {"reader1", "reader2"}

ServiceInit ==
    /\ heap = << <<>> >>
    /\ value = 1
    /\ received = [r \in Readers |-> <<>>]
    /\ subscribed = [r \in Readers |-> FALSE]
    /\ rasterizer \in Rasterizers
    /\ last = [called |-> FALSE, hasImage |-> FALSE, hasPoints |-> FALSE, nPoints |-> 0,
               out |-> Threw(NoError, 0)]
    /\ okCalls = 0

\* A call of getResults.  When it reaches addResult, next() delivers the new
\* array to every subscribed reader.
GetResults ==
    /\ okCalls < MaxCalls
    /\ \E data \in CallInputs : \E failAt \in FailPoints(data) :
        LET out == getResultsOf[data, failAt, rasterizer]
            new == IF out.added = <<>> THEN [heap |-> heap, value |-> value]
                   ELSE addResult(heap, value, out.added[1])
        IN  /\ heap' = new.heap
            /\ value' = new.value
            /\ received' = [r \in Readers |->
                              IF subscribed[r] /\ out.added # <<>>
                              THEN Append(received[r], new.value) ELSE received[r]]
            /\ last' = [called |-> TRUE, hasImage |-> data.image # Null,
                        hasPoints |-> data.points # Null,
                        nPoints |-> IF data.points = Null THEN 0 ELSE Len(data.points[1]),
                        out |-> [out EXCEPT !.added = <<>>]]
            /\ okCalls' = IF out.error = NoError THEN okCalls + 1 ELSE okCalls
            /\ UNCHANGED <<subscribed, rasterizer, uploadVars>>

\* A reader subscribes to the observable getResults returned: a
\* BehaviorSubject delivers its current value on subscription.
Subscribe(r) ==
    /\ okCalls > 0
    /\ ~subscribed[r]
    /\ subscribed' = [subscribed EXCEPT ![r] = TRUE]
    /\ received' = [received EXCEPT ![r] = Append(@, value)]
    /\ UNCHANGED <<heap, value, rasterizer, last, okCalls, uploadVars>>

Init == UploadInit /\ ServiceInit

Next == GetResults \/ \E r \in Readers : Subscribe(r)

Spec == Init /\ [][Next]_vars

UploadNext == OnFileSelected \/ OnSliderChange

SpecUpload == Init /\ [][UploadNext]_vars

(***************************************************************************)
(* Properties                                                              *)
(***************************************************************************)

\* The most recent getResults call returned normally.
LastOk == last.called /\ last.out.error = NoError

\* The result that call appended.
LastResult == heap[value][Len(heap[value])]

BinarizesTo(image, level) ==
    \A i \in DOMAIN image.data :
        (30 * image.data[i][1] + 59 * image.data[i][2] + 11 * image.data[i][3] > 12800) = (level = 255)

\* C1: for every valid estimation, 0 <= pointsInside <= totalPoints (the
\* number of supplied points) and 0 <= estimatedArea <= totalArea = width *
\* height.  (estimatedArea is held in units of 1/10000.)
C1_InsideAndAreaBounded ==
    LastOk =>
        /\ last.out.totalPoints = last.nPoints
        /\ 0 <= last.out.pointsInside /\ last.out.pointsInside <= last.out.totalPoints
        /\ last.out.totalArea = LastResult.originalImage.width * LastResult.originalImage.height
        /\ 0 <= last.out.estimatedArea /\ last.out.estimatedArea <= 10000 * last.out.totalArea

\* C2: for a fully stained image (every pixel binarises to black) and any 3
\* or more in-bounds points, pointsInside = totalPoints and estimatedArea =
\* totalArea; a 10x10 all-black image with 10 points gives 10, 100 and 100.
C2_FullyStained ==
    (LastOk /\ BinarizesTo(LastResult.originalImage, 0)) =>
        /\ last.out.pointsInside = last.out.totalPoints
        /\ last.out.estimatedArea = 10000 * last.out.totalArea
        /\ (LastResult.originalImage = Solid(10, 10, <<0, 0, 0, 255>>) /\ last.nPoints = 10) =>
              /\ last.out.pointsInside = 10
              /\ last.out.totalArea = 100
              /\ last.out.estimatedArea = 1000000

\* C3: for a fully background image (every pixel binarises to white) and any
\* 3 or more points, pointsInside = 0 and estimatedArea = 0, wherever the
\* points are and however their markers overlap.
C3_FullyBackground ==
    (LastOk /\ BinarizesTo(LastResult.originalImage, 255)) =>
        /\ last.out.pointsInside = 0
        /\ last.out.estimatedArea = 0
        /\ LastResult.area = 0

\* C3 witness: an estimation of a background image returned, with ten points
\* of which two are at the same place and two are not.
C3_Witness ==
    /\ LastOk
    /\ BinarizesTo(LastResult.originalImage, 255)
    /\ Len(LastResult.points) = 10
    /\ \E i, j \in DOMAIN LastResult.points : i # j /\ LastResult.points[i] = LastResult.points[j]
    /\ \E i, j \in DOMAIN LastResult.points : LastResult.points[i] # LastResult.points[j]

ValidationErrors == {"Image is required for calculation", "At least 3 points are required for calculation"}

\* C4: getResults fails with a validation error exactly when the image is
\* absent, or the point list is absent or shorter than 3; and it fails so
\* before any drawing surface is created.
C4_ValidationExactly ==
    last.called =>
        /\ (last.out.error \in ValidationErrors) <=>
              (~last.hasImage \/ ~last.hasPoints \/ last.nPoints < 3)
        /\ (last.out.error \in ValidationErrors) => last.out.surfaces = 0

\* C4 witness: a call with an image and a list of two points failed with the
\* validation error.
C4_Witness ==
    /\ last.called /\ last.hasImage /\ last.hasPoints /\ last.nPoints = 2
    /\ last.out.error \in ValidationErrors

\* C5: a getResults call that fails, whatever the error, leaves the log as it
\* was and notifies no reader.  (A step that keeps the subscriptions and
\* leaves an error in last is a failed call.)
C5_FailureLeavesLog ==
    [][(subscribed' = subscribed /\ last'.called /\ last'.out.error # NoError) =>
          /\ value' = value
          /\ heap' = heap
          /\ received' = received]_vars

\* C5 witness: with a result in the log and a reader subscribed, a call failed
\* in the result-encoding step, after the overlay was drawn.
C5_Witness ==
    /\ last.called /\ last.out.error = ErrContext /\ last.out.surfaces = 2
    /\ Len(heap[value]) >= 1
    /\ \E r \in Readers : subscribed[r]

\* C6: the log is append-only and in insertion order: every step leaves the
\* entries it had in place, a call that returns adds exactly one entry at the
\* end, for that call, and the length of the log is the number of calls that
\* returned.
C6_Step ==
    /\ Len(heap'[value']) >= Len(heap[value])
    /\ SubSeq(heap'[value'], 1, Len(heap[value])) = heap[value]
    /\ Len(heap'[value']) = okCalls'
    /\ okCalls' = okCalls + 1 =>
          /\ Len(heap'[value']) = Len(heap[value]) + 1
          /\ Len(heap'[value'][okCalls'].points) = last'.nPoints
          /\ heap'[value'][okCalls'].originalImage.width * heap'[value'][okCalls'].originalImage.height
                = last'.out.totalArea
          /\ heap'[value'][okCalls'].area = last'.out.estimatedArea

C6_AppendOnly == [][C6_Step]_vars

\* C6 witness: two calls returned and the log holds two different results.
C6_Witness ==
    /\ okCalls = 2
    /\ Len(heap[value]) = 2
    /\ heap[value][1] # heap[value][2]

\* C7: a reader first receives the log as it is when it subscribes, then one
\* notification per later append, in order, each carrying the whole log after
\* that append; and what a reader has received is not changed afterwards.
C7_Step ==
    \A r \in Readers :
        /\ (~subscribed[r] /\ subscribed'[r]) =>
              /\ received'[r] = <<value>>
              /\ heap'[value] = heap[value]
        /\ (subscribed[r] /\ okCalls' = okCalls + 1) =>
              /\ Len(received'[r]) = Len(received[r]) + 1
              /\ SubSeq(received'[r], 1, Len(received[r])) = received[r]
              /\ heap'[received'[r][Len(received'[r])]] = heap'[value']
              /\ Len(heap'[value']) = Len(heap[value]) + 1
        /\ (subscribed[r] /\ okCalls' = okCalls) => received'[r] = received[r]
        /\ ~subscribed'[r] => received'[r] = <<>>
        /\ \A k \in DOMAIN received[r] : heap'[received[r][k]] = heap[received[r][k]]

C7_ReaderSnapshots == [][C7_Step]_vars

\* C7 witness: a reader that subscribed when the log held one result has
\* since been notified of a second one, and still holds the first snapshot.
C7_Witness ==
    \E r \in Readers :
        /\ subscribed[r]
        /\ Len(received[r]) = 2
        /\ Len(heap[received[r][1]]) = 1
        /\ Len(heap[received[r][2]]) = 2

\* C8: binarize maps every pixel on its own: red, green and blue are all 255
\* when 0.3 R + 0.59 G + 0.11 B > 128 and all 0 otherwise, alpha is 255
\* whatever the source alpha, and the mask has the image's dimensions.
C8_Binarize ==
    imageLoaded =>
        /\ canvas.width = source.width /\ canvas.height = source.height
        /\ Len(canvas.data) = source.width * source.height
        /\ Len(source.data) = Len(canvas.data)
        /\ \A i \in DOMAIN source.data :
              canvas.data[i] =
                 IF 30 * source.data[i][1] + 59 * source.data[i][2] + 11 * source.data[i][3] > 12800
                 THEN <<255, 255, 255, 255>> ELSE <<0, 0, 0, 255>>

\* C8 witness: an image with a pixel that is not opaque has been binarised
\* into a mask holding both levels.
C8_Witness ==
    /\ imageLoaded
    /\ \E i \in DOMAIN source.data : source.data[i][4] # 255
    /\ \E i, j \in DOMAIN canvas.data : canvas.data[i][1] = 0 /\ canvas.data[j][1] = 255

\* C9 as stated: a pixel whose luminance is exactly 128 (R = G = B = 128)
\* comes out as background, channels 255.
C9_BoundaryIsBackground ==
    imageLoaded =>
        \A i \in DOMAIN source.data :
            (30 * source.data[i][1] + 59 * source.data[i][2] + 11 * source.data[i][3] = 12800) =>
                (canvas.data[i][1] = 255 /\ canvas.data[i][2] = 255 /\ canvas.data[i][3] = 255)

\* C9 amended: a pixel whose luminance is exactly 128 comes out as stain,
\* channels 0; only a luminance above 128 gives 255.
C9_BoundaryIsStain ==
    imageLoaded =>
        \A i \in DOMAIN source.data :
            (30 * source.data[i][1] + 59 * source.data[i][2] + 11 * source.data[i][3] = 12800) =>
                (canvas.data[i][1] = 0 /\ canvas.data[i][2] = 0 /\ canvas.data[i][3] = 0)

\* C9 witness: an image holding the pixel R = G = B = 128 has been binarised.
C9_Witness ==
    /\ imageLoaded
    /\ \E i \in DOMAIN source.data : source.data[i] = <<128, 128, 128, 255>>

\* C10: a sample requested with n < 1 fails: the sampler returns no plan, and
\* never an empty one.
C10_InvalidSampleCount ==
    (sampled.called /\ sampled.n < 1) => ~sampled.returned

\* The buffer getPointsInside scans as the original in the most recent call
\* that returned: originalImageData of overlayImage for that call's arguments.
LastOriginal ==
    overlayImage(LastResult.originalImage, LastResult.points, rasterizer).originalImageData

\* C11: in every estimation the original buffer scanned is the binarised
\* image: each of its pixels is 0 or 255 in every colour channel, namely 255
\* where the supplied pixel has 0.3 R + 0.59 G + 0.11 B > 128 and 0 elsewhere,
\* also when the supplied image is not two-level; it has the image's size and
\* depends on the image alone, not on the markers drawn.
C11_OriginalIsBinarized ==
    LastOk =>
        /\ LastOriginal.width = LastResult.originalImage.width
        /\ LastOriginal.height = LastResult.originalImage.height
        /\ DOMAIN LastOriginal.data = DOMAIN LastResult.originalImage.data
        /\ \A i \in DOMAIN LastOriginal.data :
              LET px == LastResult.originalImage.data[i]
                  level == IF 30 * px[1] + 59 * px[2] + 11 * px[3] > 12800 THEN 255 ELSE 0
              IN  /\ LastOriginal.data[i][1] = level
                  /\ LastOriginal.data[i][2] = level
                  /\ LastOriginal.data[i][3] = level

====
